---- MODULE Spec2Model ----
(***************************************************************************)
(* Model of zyx-env: the TopSecret cipher object (index.js), the env-file  *)
(* loader (loadEnvFile.js, loadEnvFiles.js, createReadOnlyObject.js) and    *)
(* the key resolver (loadEncryptKey.js).                                    *)
(*                                                                         *)
(* Conventions.  A Buffer is a sequence of bytes (0..255).  A JavaScript   *)
(* string is a sequence of code points.  A value that may be null or       *)
(* undefined is a set with at most one element: {} is null, {x} is x.      *)
(* A thrown Error is an outcome record whose err field is the message the  *)
(* code passes to the Error constructor.                                   *)
(***************************************************************************)
EXTENDS Integers, Sequences, FiniteSets, TLC

VARIABLES
  _key, _password,   \* the fields of the TopSecret instance
  disk,              \* the files the cipher reads and writes
  env,               \* process.env as decryptEnvFromFile writes it
  last,              \* the call made last on the instance, and its outcome
  calls,             \* how many calls were made on the instance
  dir,               \* the directory of env files the loaders read
  opts,              \* what the application passes to the loaders: the
                     \* decryption key, the schema and the verbose option
  load,              \* the last loadEnvFile call and its outcome
  snapshot,          \* the object loadEnvFile returned, as the caller holds it
  run,               \* the loadEnvFiles call in progress: its locals
  isProduction,      \* system.isProduction
  resolved           \* the last loadEncryptKey call and its outcome

cipherVars == <<_key, _password, disk, env, last, calls>>
loaderVars == <<dir, opts, load, snapshot, run>>
keyVars == <<isProduction, resolved>>
vars == <<_key, _password, disk, env, last, calls, dir, opts, load, snapshot, run,
          isProduction, resolved>>

----------------------------------------------------------------------------
(* Bounds of the model *)

\* longest file content (bytes) the file-encrypting operations are applied to
MaxPlainLen == 8

\* number of calls made on the cipher object in one run
MaxCalls == 4

\* number of distinct outcomes drawn for crypto.randomBytes
NumRandom == 2

(* Program constants *)

KeyBytes == 32
KeyHexChars == 64
IvBytes == 16
BlockBytes == 16

----------------------------------------------------------------------------
(* Sequences, bytes and text *)

Null == {}
Some(x) == {x}
The(o) == CHOOSE x \in o : TRUE

Rep(c, n) == [i \in 1..n |-> c]

Slice(s, from, to) == [i \in 1..(IF to >= from THEN to - from + 1 ELSE 0) |-> s[from + i - 1]]

Drop(s, n) == Slice(s, n + 1, Len(s))

Take(s, n) == Slice(s, 1, IF n < Len(s) THEN n ELSE Len(s))

\* U+FFFD, what the UTF-8 decoder substitutes for a malformed sequence
Replacement == <<65533>>

IsCont(b, lo, hi) == b >= lo /\ b <= hi

\* The second-byte range of a multi-byte sequence, by lead byte (WHATWG).
SecondLo(lead) == IF lead = 224 THEN 160 ELSE IF lead = 240 THEN 144 ELSE 128
SecondHi(lead) == IF lead = 237 THEN 159 ELSE IF lead = 244 THEN 143 ELSE 191

\* Number of continuation bytes a lead byte asks for; -1 for a byte that
\* cannot start a sequence.
Needed(lead) ==
  IF lead < 128 THEN 0
  ELSE IF lead >= 194 /\ lead <= 223 THEN 1
  ELSE IF lead >= 224 /\ lead <= 239 THEN 2
  ELSE IF lead >= 240 /\ lead <= 244 THEN 3
  ELSE -1

LeadBits(lead) ==
  IF lead < 128 THEN lead
  ELSE IF lead <= 223 THEN lead - 192
  ELSE IF lead <= 239 THEN lead - 224
  ELSE lead - 240

\* How many of the continuation bytes after position i are well formed.
RECURSIVE GoodConts(_, _, _, _)
GoodConts(b, i, k, need) ==
  IF k > need \/ i + k > Len(b) THEN k - 1
  ELSE LET lo == IF k = 1 THEN SecondLo(b[i]) ELSE 128
           hi == IF k = 1 THEN SecondHi(b[i]) ELSE 191
       IN IF IsCont(b[i + k], lo, hi) THEN GoodConts(b, i, k + 1, need) ELSE k - 1

RECURSIVE Accumulate(_, _, _, _)
Accumulate(b, i, k, acc) ==
  IF k = 0 THEN acc
  ELSE Accumulate(b, i + 1, k - 1, acc * 64 + (b[i] - 128))

\* Buffer.prototype.toString("utf-8"): every malformed sequence (its maximal
\* well-formed prefix) becomes one U+FFFD.
\* the number of bytes from b[i] on that are ASCII, up to the first that is not
AsciiRun(b, i) ==
  LET others == {j \in i..Len(b) : b[j] >= 128}
  IN IF others = {} THEN Len(b) - i + 1
     ELSE (CHOOSE j \in others : \A m \in others : j <= m) - i

RECURSIVE Utf8DecodeFrom(_, _)
Utf8DecodeFrom(b, i) ==
  IF i > Len(b) THEN <<>>
  ELSE IF b[i] < 128
  THEN SubSeq(b, i, i + AsciiRun(b, i) - 1) \o Utf8DecodeFrom(b, i + AsciiRun(b, i))
  ELSE LET need == Needed(b[i])
       IN IF need = -1 THEN Replacement \o Utf8DecodeFrom(b, i + 1)
          ELSE LET got == GoodConts(b, i, 1, need)
               IN IF got = need
                  THEN <<Accumulate(b, i + 1, need, LeadBits(b[i]))>>
                         \o Utf8DecodeFrom(b, i + need + 1)
                  ELSE Replacement \o Utf8DecodeFrom(b, i + got + 1)

Utf8Decode(b) == Utf8DecodeFrom(b, 1)

Utf8EncodeChar(c) ==
  IF c < 128 THEN <<c>>
  ELSE IF c < 2048 THEN <<192 + (c \div 64), 128 + (c % 64)>>
  ELSE IF c < 65536
       THEN <<224 + (c \div 4096), 128 + ((c \div 64) % 64), 128 + (c % 64)>>
       ELSE <<240 + (c \div 262144), 128 + ((c \div 4096) % 64),
              128 + ((c \div 64) % 64), 128 + (c % 64)>>

\* Buffer.from(text, "utf8"), and what fs.writeFileSync does with a string.
RECURSIVE Utf8Encode(_)
Utf8Encode(s) ==
  IF s = <<>> THEN <<>> ELSE Utf8EncodeChar(Head(s)) \o Utf8Encode(Tail(s))

----------------------------------------------------------------------------
(* Hex: Buffer.from(value, "hex") and Buffer.prototype.toString("hex") *)

HexVal(c) ==
  IF c >= 48 /\ c <= 57 THEN c - 48
  ELSE IF c >= 97 /\ c <= 102 THEN c - 87
  ELSE IF c >= 65 /\ c <= 70 THEN c - 55
  ELSE -1

\* Decoding stops at the first pair that is not two hex digits; an odd last
\* character is dropped.  No error is raised.
RECURSIVE HexDecodeFrom(_, _)
HexDecodeFrom(s, i) ==
  IF i + 1 > Len(s) THEN <<>>
  ELSE IF HexVal(s[i]) = -1 \/ HexVal(s[i + 1]) = -1 THEN <<>>
  ELSE <<16 * HexVal(s[i]) + HexVal(s[i + 1])>> \o HexDecodeFrom(s, i + 2)

HexDecode(s) == HexDecodeFrom(s, 1)

HexDigit(n) == IF n < 10 THEN 48 + n ELSE 87 + n

RECURSIVE HexEncode(_)
HexEncode(b) ==
  IF b = <<>> THEN <<>>
  ELSE <<HexDigit(Head(b) \div 16), HexDigit(Head(b) % 16)>> \o HexEncode(Tail(b))

----------------------------------------------------------------------------
(* Base64: Buffer.prototype.toString("base64"), Buffer.from(text, "base64") *)

B64Char(n) ==
  IF n < 26 THEN 65 + n
  ELSE IF n < 52 THEN 71 + n
  ELSE IF n < 62 THEN n - 4
  ELSE IF n = 62 THEN 43 ELSE 47

B64Val(c) ==
  IF c >= 65 /\ c <= 90 THEN c - 65
  ELSE IF c >= 97 /\ c <= 122 THEN c - 71
  ELSE IF c >= 48 /\ c <= 57 THEN c + 4
  ELSE IF c = 43 \/ c = 45 THEN 62
  ELSE IF c = 47 \/ c = 95 THEN 63
  ELSE -1

RECURSIVE Base64Encode(_)
Base64Encode(b) ==
  IF b = <<>> THEN <<>>
  ELSE IF Len(b) = 1
    THEN <<B64Char(b[1] \div 4), B64Char((b[1] % 4) * 16), 61, 61>>
  ELSE IF Len(b) = 2
    THEN <<B64Char(b[1] \div 4), B64Char((b[1] % 4) * 16 + (b[2] \div 16)),
           B64Char((b[2] % 16) * 4), 61>>
  ELSE <<B64Char(b[1] \div 4), B64Char((b[1] % 4) * 16 + (b[2] \div 16)),
         B64Char((b[2] % 16) * 4 + (b[3] \div 64)), B64Char(b[3] % 64)>>
         \o Base64Encode(Drop(b, 3))

\* The sextets of the text up to its first "=", characters outside the
\* alphabet skipped: the decoder never throws.
RECURSIVE B64Sextets(_)
B64Sextets(s) ==
  IF s = <<>> \/ Head(s) = 61 THEN <<>>
  ELSE IF B64Val(Head(s)) = -1 THEN B64Sextets(Tail(s))
  ELSE <<B64Val(Head(s))>> \o B64Sextets(Tail(s))

RECURSIVE B64Pack(_)
B64Pack(v) ==
  IF Len(v) < 2 THEN <<>>
  ELSE IF Len(v) = 2 THEN <<v[1] * 4 + (v[2] \div 16)>>
  ELSE IF Len(v) = 3
    THEN <<v[1] * 4 + (v[2] \div 16), (v[2] % 16) * 16 + (v[3] \div 4)>>
  ELSE <<v[1] * 4 + (v[2] \div 16), (v[2] % 16) * 16 + (v[3] \div 4),
         (v[3] % 4) * 64 + v[4]>> \o B64Pack(Drop(v, 4))

Base64Decode(s) == B64Pack(B64Sextets(s))

----------------------------------------------------------------------------
(* node:crypto.  createCipheriv("aes-256-cbc", key, iv) is CBC chaining    *)
(* with PKCS#7 padding around a keyed permutation of 16-byte blocks.  The  *)
(* AES permutation itself is stood in for by BlockPerm, a keyed bijection  *)
(* on blocks; chaining, padding, framing and the length checks are those   *)
(* of the library.                                                         *)

Bit(a, i) == (a \div (2 ^ i)) % 2

Xor(a, b) ==
    ((Bit(a, 0) + Bit(b, 0)) % 2)       + ((Bit(a, 1) + Bit(b, 1)) % 2) * 2
  + ((Bit(a, 2) + Bit(b, 2)) % 2) * 4   + ((Bit(a, 3) + Bit(b, 3)) % 2) * 8
  + ((Bit(a, 4) + Bit(b, 4)) % 2) * 16  + ((Bit(a, 5) + Bit(b, 5)) % 2) * 32
  + ((Bit(a, 6) + Bit(b, 6)) % 2) * 64  + ((Bit(a, 7) + Bit(b, 7)) % 2) * 128

XorBlock(x, y) == [i \in 1..BlockBytes |-> Xor(x[i], y[i])]

BlockPerm(key, x) ==
  [i \in 1..BlockBytes |-> (x[i] + key[i] + 3 * key[i + BlockBytes] + i) % 256]

BlockPermInv(key, y) ==
  [i \in 1..BlockBytes |->
     (y[i] + 4 * 256 - key[i] - 3 * key[i + BlockBytes] - i) % 256]

Pkcs7Pad(b) ==
  LET n == BlockBytes - (Len(b) % BlockBytes) IN b \o Rep(n, n)

RECURSIVE CbcEncryptBlocks(_, _, _)
CbcEncryptBlocks(key, prev, padded) ==
  IF padded = <<>> THEN <<>>
  ELSE LET c == BlockPerm(key, XorBlock(Take(padded, BlockBytes), prev))
       IN c \o CbcEncryptBlocks(key, c, Drop(padded, BlockBytes))

RECURSIVE CbcDecryptBlocks(_, _, _)
CbcDecryptBlocks(key, prev, ct) ==
  IF ct = <<>> THEN <<>>
  ELSE LET c == Take(ct, BlockBytes)
       IN XorBlock(BlockPermInv(key, c), prev)
            \o CbcDecryptBlocks(key, c, Drop(ct, BlockBytes))

\* Outcome of a call: a value, or a thrown Error with its message.  cause
\* records which kind of call threw: "io" (node:fs), "cipher" (no key,
\* node:crypto), "payload" (JSON), "arg" (a rejected argument).
Ok(v) == [ok |-> TRUE, err |-> "", cause |-> "none", val |-> v, obj |-> {}]
OkObj(o) == [ok |-> TRUE, err |-> "", cause |-> "none", val |-> <<>>, obj |-> {o}]
Throw(msg, why) == [ok |-> FALSE, err |-> msg, cause |-> why, val |-> <<>>, obj |-> {}]

\* crypto.createCipheriv(...); Buffer.concat([cipher.update(b), cipher.final()])
AesCbcEncrypt(key, iv, plain) ==
  IF Len(key) # KeyBytes THEN Throw("Invalid key length", "cipher")
  ELSE IF Len(iv) # IvBytes THEN Throw("Invalid initialization vector", "cipher")
  ELSE Ok(CbcEncryptBlocks(key, iv, Pkcs7Pad(plain)))

\* crypto.createDecipheriv(...); Buffer.concat([d.update(ct), d.final()])
AesCbcDecrypt(key, iv, ct) ==
  IF Len(key) # KeyBytes THEN Throw("Invalid key length", "cipher")
  ELSE IF Len(iv) # IvBytes THEN Throw("Invalid initialization vector", "cipher")
  ELSE IF Len(ct) = 0 \/ Len(ct) % BlockBytes # 0
    THEN Throw("wrong final block length", "cipher")
  ELSE LET p == CbcDecryptBlocks(key, iv, ct)
           n == p[Len(p)]
       IN IF n >= 1 /\ n <= BlockBytes
             /\ \A i \in (Len(p) - n + 1)..Len(p) : p[i] = n
          THEN Ok(Take(p, Len(p) - n))
          ELSE Throw("bad decrypt", "cipher")

\* crypto.randomBytes(n): one of NumRandom outcomes
RandomBytes(n) == {Rep(17 * r, n) : r \in 1..NumRandom}

\* crypto.createHash("sha256").update(value).digest(): 32 bytes that depend
\* only on the text hashed
RECURSIVE Fold(_, _)
Fold(s, acc) == IF s = <<>> THEN acc ELSE Fold(Tail(s), (acc * 31 + Head(s)) % 251)

Sha256(text) == [i \in 1..KeyBytes |-> (Fold(Utf8Encode(text), 7) * i + i) % 256]

----------------------------------------------------------------------------
(* JavaScript values and JSON.  A value is a record: t its type, s the     *)
(* text of a primitive, kids the own enumerable properties of an object or *)
(* array in insertion order, each [k |-> name, v |-> value].               *)

JsString(s)  == [t |-> "string", s |-> s, kids |-> <<>>, ext |-> FALSE]
JsNumber(s)  == [t |-> "number", s |-> s, kids |-> <<>>, ext |-> FALSE]
JsBoolean(s) == [t |-> "boolean", s |-> s, kids |-> <<>>, ext |-> FALSE]
JsNull       == [t |-> "null", s |-> <<>>, kids |-> <<>>, ext |-> FALSE]
JsUndefined  == [t |-> "undefined", s |-> <<>>, kids |-> <<>>, ext |-> FALSE]
\* an ordinary object or array is extensible; a property is a data property
\* with its writable (w) and configurable (c) attributes
JsObject(props) == [t |-> "object", s |-> <<>>, kids |-> props, ext |-> TRUE]
JsArray(props)  == [t |-> "array", s |-> <<>>, kids |-> props, ext |-> TRUE]
Prop(k, v) == [k |-> k, v |-> v, w |-> TRUE, c |-> TRUE]
IsObject(v) == v.t \in {"object", "array"}

\* text fragments:  1   2   "a"   "0"
One  == JsNumber(<<49>>)
Two  == JsNumber(<<50>>)
NameA == <<97>>
Index0 == <<48>>

\* [1]   {"a":1}   the JSON documents of the model
JsonArr1 == JsArray(<<Prop(Index0, One)>>)
JsonObjA == JsObject(<<Prop(NameA, One)>>)
JsonUniverse == {One, JsonArr1, JsonObjA}

\* JSON.stringify on the values of JsonUniverse (primitives, flat arrays and
\* flat objects whose names need no escaping)
JsonLeaf(v) ==
  IF v.t = "string" THEN <<34>> \o v.s \o <<34>>
  ELSE IF v.t = "null" THEN <<110, 117, 108, 108>>
  ELSE v.s

RECURSIVE JsonItems(_, _)
JsonItems(props, named) ==
  IF props = <<>> THEN <<>>
  ELSE (IF named THEN <<34>> \o Head(props).k \o <<34, 58>> ELSE <<>>)
         \o JsonLeaf(Head(props).v)
         \o (IF Len(props) > 1 THEN <<44>> ELSE <<>>)
         \o JsonItems(Tail(props), named)

JsonStringify(v) ==
  IF v.t = "object" THEN <<123>> \o JsonItems(v.kids, TRUE) \o <<125>>
  ELSE IF v.t = "array" THEN <<91>> \o JsonItems(v.kids, FALSE) \o <<93>>
  ELSE JsonLeaf(v)

\* JSON.parse, on the texts the model can produce: a text that is the
\* serialization of a document of JsonUniverse parses to it, any other text
\* of the model is not JSON and raises SyntaxError.
JsonParse(text) ==
  IF \E v \in JsonUniverse : JsonStringify(v) = text
  THEN OkObj(CHOOSE v \in JsonUniverse : JsonStringify(v) = text)
  ELSE Throw("SyntaxError: Unexpected token in JSON", "payload")

----------------------------------------------------------------------------
(* Text helpers: String.prototype.trim and split *)

IsSpace(c) == c \in {9, 10, 11, 12, 13, 32, 160, 65279}

RECURSIVE TrimStart(_)
TrimStart(s) == IF s # <<>> /\ IsSpace(Head(s)) THEN TrimStart(Tail(s)) ELSE s

RECURSIVE TrimEnd(_)
TrimEnd(s) ==
  IF s # <<>> /\ IsSpace(s[Len(s)]) THEN TrimEnd(Take(s, Len(s) - 1)) ELSE s

Trim(s) == TrimEnd(TrimStart(s))

\* s.split(c) for a one-character separator: at least one piece
RECURSIVE SplitFrom(_, _, _)
SplitFrom(s, c, piece) ==
  IF s = <<>> THEN <<piece>>
  ELSE IF Head(s) = c THEN <<piece>> \o SplitFrom(Tail(s), c, <<>>)
  ELSE SplitFrom(Tail(s), c, Append(piece, Head(s)))

Split(s, c) == SplitFrom(s, c, <<>>)

----------------------------------------------------------------------------
(* node:fs.  One directory holds the file "data"; the path "nodir/x" lies  *)
(* in a directory that does not exist, so reading and writing it fail.     *)

Paths == {"data", "nodir/x"}
Enoent == Throw("ENOENT: no such file or directory", "io")

\* fs.readFileSync(path)
ReadFile(d, path) == IF d[path] = Null THEN Enoent ELSE Ok(The(d[path]))

\* fs.writeFileSync(path, bytes): the outcome, and the disk after it
CanWrite(path) == path = "data"
WriteFile(d, path, bytes) ==
  IF CanWrite(path) THEN [out |-> Ok(<<>>), disk |-> [d EXCEPT ![path] = Some(bytes)]]
  ELSE [out |-> Enoent, disk |-> d]

----------------------------------------------------------------------------
(* class TopSecret.  Each method is an operator of the instance's key k    *)
(* (Null or Some(bytes)), its arguments, the randomness it draws (iv) and  *)
(* the disk; it yields the outcome and, where it writes, the disk after.   *)

KeyNotSet == Throw("Key is not set.", "cipher")

\* try { body } catch (error) { throw new Error(msg) }
Rethrow(out, msg) == IF out.ok THEN out ELSE Throw(msg, out.cause)

encryptBuffer(k, iv, buffer) ==
  IF k = Null THEN KeyNotSet
  ELSE LET c == AesCbcEncrypt(The(k), iv, buffer)
       IN IF c.ok THEN Ok(iv \o c.val) ELSE c

decryptBuffer(k, buffer) ==
  IF k = Null THEN KeyNotSet
  ELSE LET d == AesCbcDecrypt(The(k), Take(buffer, IvBytes), Drop(buffer, IvBytes))
       IN IF d.ok THEN Ok(Utf8Decode(d.val)) ELSE d

\* One "name=value" line of decryptEnvFromFile applied to the environment.
EnvAssign(e, line) ==
  IF Trim(line) = <<>> THEN e
  ELSE LET parts == Split(line, 61)
           name  == parts[1]
       IN IF name # <<>> /\ Len(parts) >= 2 /\ parts[2] # <<>>
          THEN [n \in DOMAIN e \cup {Trim(name)} |->
                  IF n = Trim(name) THEN Trim(parts[2]) ELSE e[n]]
          ELSE e

RECURSIVE EnvAssignAll(_, _)
EnvAssignAll(e, lines) ==
  IF lines = <<>> THEN e ELSE EnvAssignAll(EnvAssign(e, Head(lines)), Tail(lines))

decryptEnvFromFile(k, d, e, filename) ==
  IF k = Null THEN [out |-> KeyNotSet, env |-> e]
  ELSE LET r == ReadFile(d, filename)
           t == IF r.ok THEN decryptBuffer(k, r.val) ELSE r
       IN IF t.ok
          THEN [out |-> Ok(<<>>), env |-> EnvAssignAll(e, Split(t.val, 10))]
          ELSE [out |-> Throw("Failed to decrypt and load environment variables.", t.cause),
                env |-> e]

encryptFile(k, iv, d, srcFilename, dstFilename) ==
  LET r == ReadFile(d, srcFilename)
      c == IF r.ok THEN encryptBuffer(k, iv, r.val) ELSE r
      w == WriteFile(d, dstFilename, c.val)
  IN IF c.ok THEN [out |-> Rethrow(w.out, "Failed to encrypt file."), disk |-> w.disk]
     ELSE [out |-> Rethrow(c, "Failed to encrypt file."), disk |-> d]

decryptFile(k, d, srcFilename, dstFilename) ==
  LET r == ReadFile(d, srcFilename)
      t == IF r.ok THEN decryptBuffer(k, r.val) ELSE r
      w == WriteFile(d, dstFilename, Utf8Encode(t.val))
  IN IF t.ok THEN [out |-> Rethrow(w.out, "Failed to decrypt file."), disk |-> w.disk]
     ELSE [out |-> Rethrow(t, "Failed to decrypt file."), disk |-> d]

encryptJSON(k, iv, data) ==
  IF k = Null THEN KeyNotSet
  ELSE LET c == encryptBuffer(k, iv, Utf8Encode(JsonStringify(data)))
       IN IF c.ok THEN Ok(Base64Encode(c.val)) ELSE c

decryptJSON(k, encryptedData) ==
  IF k = Null THEN KeyNotSet
  ELSE LET t == decryptBuffer(k, Base64Decode(encryptedData))
       IN IF t.ok THEN JsonParse(t.val) ELSE t

encryptJSONToFile(k, iv, d, data, filename) ==
  IF k = Null THEN [out |-> KeyNotSet, disk |-> d]
  ELSE LET c == encryptBuffer(k, iv, Utf8Encode(JsonStringify(data)))
           w == WriteFile(d, filename, c.val)
       IN IF c.ok THEN w ELSE [out |-> c, disk |-> d]

\* The class body declares decryptBufferFromFile twice; the later
\* declaration is the method the class has.
decryptBufferFromFile(k, d, filename) ==
  LET r == ReadFile(d, filename)
      t == IF r.ok THEN decryptBuffer(k, r.val) ELSE r
  IN Rethrow(t, "Failed to load buffer from file.")

decryptJSONFromFile(k, d, filename) ==
  LET t == decryptBufferFromFile(k, d, filename)
  IN IF t.ok THEN JsonParse(t.val) ELSE t

loadJSONFromFile(k, d, filename) ==
  LET r == ReadFile(d, filename)
      v == IF r.ok THEN decryptJSON(k, Utf8Decode(r.val)) ELSE r
  IN Rethrow(v, "Failed to load JSON from file.")

saveBufferToFile(k, iv, d, filename, buffer) ==
  LET c == encryptBuffer(k, iv, buffer)
      w == WriteFile(d, filename, c.val)
  IN IF c.ok THEN [out |-> Rethrow(w.out, "Failed to save buffer to file."), disk |-> w.disk]
     ELSE [out |-> Rethrow(c, "Failed to save buffer to file."), disk |-> d]

saveJSONToFile(k, iv, d, filename, data) ==
  LET c == encryptJSON(k, iv, data)
      w == WriteFile(d, filename, Utf8Encode(c.val))
  IN IF c.ok THEN [out |-> Rethrow(w.out, "Failed to save JSON to file."), disk |-> w.disk]
     ELSE [out |-> Rethrow(c, "Failed to save JSON to file."), disk |-> d]

\* set key(value): value is Null (no value) or Some(text)
setKey(value) ==
  IF value # Null /\ Len(The(value)) = KeyHexChars
  THEN Ok(HexDecode(The(value)))
  ELSE Throw("Key must be 64 bytes long.", "arg")

\* set password(value): value is Null (not a string) or Some(text)
setPassword(value) ==
  IF value = Null \/ Len(The(value)) = 0
  THEN Throw("Password must be a non-empty string.", "arg")
  ELSE Ok(Sha256(The(value)))

----------------------------------------------------------------------------
(* loadEnvFile.js: the line parser *)

HasProp(o, k) == \E i \in 1..Len(o.kids) : o.kids[i].k = k

\* "__proto__"
ProtoName == <<95, 95, 112, 114, 111, 116, 111, 95, 95>>

\* o[k] = v on an ordinary object: an own property keeps its place.  The
\* name __proto__ is the accessor of Object.prototype: assigning to it sets
\* or keeps the prototype and makes no own property.
Assign(o, k, v) ==
  IF k = ProtoName THEN o
  ELSE IF HasProp(o, k)
  THEN [o EXCEPT !.kids = [i \in 1..Len(o.kids) |->
                             IF o.kids[i].k = k THEN [o.kids[i] EXCEPT !.v = v]
                             ELSE o.kids[i]]]
  ELSE [o EXCEPT !.kids = Append(o.kids, Prop(k, v))]

RECURSIVE Join(_, _)
Join(pieces, c) ==
  IF pieces = <<>> THEN <<>>
  ELSE IF Len(pieces) = 1 THEN pieces[1]
  ELSE pieces[1] \o <<c>> \o Join(Tail(pieces), c)

\* raw.split(/\r?\n/)
StripCr(piece) ==
  IF piece # <<>> /\ piece[Len(piece)] = 13 THEN Take(piece, Len(piece) - 1) ELSE piece

SplitLines(raw) ==
  LET pieces == Split(raw, 10)
  IN [i \in 1..Len(pieces) |-> IF i < Len(pieces) THEN StripCr(pieces[i]) ELSE pieces[i]]

\* value.replace(/\s+#.*$/, ""): the leftmost run of white space that is
\* followed by "#" and by no line terminator up to the end is where the
\* value is cut
IsLineEnd(c) == c \in {10, 13, 8232, 8233}

CommentAt(s, i) ==
  /\ IsSpace(s[i])
  /\ \E j \in (i + 1)..Len(s) :
       /\ s[j] = 35
       /\ \A m \in i..(j - 1) : IsSpace(s[m])
       /\ \A m \in (j + 1)..Len(s) : ~IsLineEnd(s[m])

StripInlineComment(s) ==
  IF \E i \in 1..Len(s) : CommentAt(s, i)
  THEN Take(s, (CHOOSE i \in 1..Len(s) :
                  CommentAt(s, i) /\ \A m \in 1..(i - 1) : ~CommentAt(s, m)) - 1)
  ELSE s

isJsonLike(value) ==
  LET trimmed == Trim(value)
  IN /\ trimmed # <<>>
     /\ \/ trimmed[1] = 91 /\ trimmed[Len(trimmed)] = 93
        \/ trimmed[1] = 123 /\ trimmed[Len(trimmed)] = 125

\* coercePrimitive of zyx-system: "true" and "false" become booleans, an
\* integer or decimal literal a number, any other text stays a string
IsDigit(c) == c >= 48 /\ c <= 57

IsNumeric(s) ==
  LET body == IF s # <<>> /\ s[1] = 45 THEN Tail(s) ELSE s
  IN /\ body # <<>>
     /\ \A i \in 1..Len(body) : IsDigit(body[i]) \/ body[i] = 46
     /\ Cardinality({i \in 1..Len(body) : body[i] = 46}) <= 1
     /\ IsDigit(body[1]) /\ IsDigit(body[Len(body)])

coercePrimitive(value) ==
  IF value = <<116, 114, 117, 101>> \/ value = <<102, 97, 108, 115, 101>>
  THEN JsBoolean(value)
  ELSE IF IsNumeric(value) THEN JsNumber(value)
  ELSE JsString(value)

\* the body of lines.forEach
ParseLine(rawValues, line) ==
  LET trimmed == Trim(line)
  IN IF trimmed = <<>> \/ trimmed[1] = 35 THEN rawValues
     ELSE LET parts == Split(trimmed, 61)
              name  == parts[1]
              key   == Trim(name)
              value == Trim(StripInlineComment(Join(Tail(parts), 61)))
              parsed == JsonParse(value)
          IN IF name = <<>> THEN rawValues
             ELSE IF isJsonLike(value)
                  THEN Assign(rawValues, key,
                              IF parsed.ok THEN The(parsed.obj) ELSE JsString(value))
                  ELSE Assign(rawValues, key, coercePrimitive(value))

RECURSIVE ParseLines(_, _)
ParseLines(rawValues, lines) ==
  IF lines = <<>> THEN rawValues
  ELSE ParseLines(ParseLine(rawValues, Head(lines)), Tail(lines))

ParseEnv(raw) == ParseLines(JsObject(<<>>), SplitLines(raw))

----------------------------------------------------------------------------
(* createReadOnlyObject.js *)

RECURSIVE createReadOnlyObject(_)
createReadOnlyObject(data) ==
  IF ~IsObject(data) THEN data
  ELSE [t |-> data.t, s |-> <<>>, ext |-> TRUE,
        kids |-> [i \in 1..Len(data.kids) |->
                    [k |-> data.kids[i].k,
                     v |-> createReadOnlyObject(data.kids[i].v),
                     w |-> FALSE, c |-> FALSE]]]

----------------------------------------------------------------------------
(* The schema collaborator: schema.validate(rawValues) gives               *)
(* {validated, errors}.  The schemas of the model: none ({}), two that     *)
(* require fields, one that adds a default, one that returns no validated  *)
(* map.                                                                    *)

NameB == <<98>>
NameZ == <<122>>
FieldError(field, message) == [field |-> field, message |-> message]
Required(o, k) == IF HasProp(o, k) THEN <<>> ELSE <<FieldError(k, "is required")>>

Schemas == {"none", "requireA", "requireAB", "withDefault", "noValidated"}

HasValidate(schema) == schema # "none"

\* validated is Null when the validator returns no validated map
Validate(schema, rawValues) ==
  CASE schema = "requireA" ->
         [validated |-> Some(rawValues), errors |-> Required(rawValues, NameA)]
    [] schema = "requireAB" ->
         [validated |-> Some(rawValues),
          errors |-> Required(rawValues, NameA) \o Required(rawValues, NameB)]
    [] schema = "withDefault" ->
         [validated |-> Some(IF HasProp(rawValues, NameZ) THEN rawValues
                             ELSE Assign(rawValues, NameZ, Two)),
          errors |-> <<>>]
    [] schema = "noValidated" -> [validated |-> Null, errors |-> <<>>]

----------------------------------------------------------------------------
(* loadEnvFile.js.  An Error is its message: the template text, the values *)
(* interpolated into it, and the lines joined below it.                    *)

Error(template, args, lines) == [template |-> template, args |-> args, lines |-> lines]
NoError == Error("", <<>>, <<>>)

Returned(value, log) == [ok |-> TRUE, error |-> NoError, value |-> value, log |-> log]
Thrown(error, log) == [ok |-> FALSE, error |-> error, value |-> JsUndefined, log |-> log]

\* typeof value === "object" ? JSON.stringify(value) : value
Display(value) ==
  IF IsObject(value) \/ value.t = "null" THEN JsonStringify(value) ELSE value.s

\* the lines console.log prints in verbose mode
VerboseLog(filename, validated) ==
  <<[key |-> <<>>, text |-> <<>>, file |-> filename]>>
    \o [i \in 1..Len(validated.kids) |->
          [key |-> validated.kids[i].k, text |-> Display(validated.kids[i].v),
           file |-> ""]]

\* The text of the file: read as it is, or decrypted with a new TopSecret
\* whose key is encryptKey.  encryptKey is Null (null or "") or Some(text).
ReadRaw(d, filename, encryptKey) ==
  IF encryptKey = Null
  THEN LET r == ReadFile(d, filename)
       IN IF r.ok THEN Returned(JsString(Utf8Decode(r.val)), <<>>)
          ELSE Thrown(Error(r.err, <<>>, <<>>), <<>>)
  ELSE LET k == setKey(encryptKey)
           t == decryptBufferFromFile(Some(k.val), d, filename)
       IN IF ~k.ok THEN Thrown(Error(k.err, <<>>, <<>>), <<>>)
          ELSE IF t.ok THEN Returned(JsString(t.val), <<>>)
          ELSE Thrown(Error("Failed to decrypt file. (%s)", <<filename>>, <<>>), <<>>)

\* a loader that would report the first violation only
ValidationErrorFirstOnly(filename, errors) ==
  Error("Fatal configuration error(s) detected in \"%s\":", <<filename>>,
        <<<<errors[1].field, errors[1].message>>>>)

\* new Error([header, ...errors.map(...)].join("\n"))
ValidationError(filename, errors) ==
  Error("Fatal configuration error(s) detected in \"%s\":", <<filename>>,
        [i \in 1..Len(errors) |-> <<errors[i].field, errors[i].message>>])

\* The part of loadEnvFile after parsing: validate, log, freeze.
Finish(filename, rawValues, schema, verbose) ==
  LET checked == IF HasValidate(schema) THEN Validate(schema, rawValues)
                 ELSE [validated |-> Some(rawValues), errors |-> <<>>]
      validated == IF checked.validated = Null THEN JsUndefined
                   ELSE The(checked.validated)
  IN IF Len(checked.errors) > 0
     THEN Thrown(ValidationError(filename, checked.errors), <<>>)
     ELSE IF verbose /\ validated.t = "undefined"
     THEN Thrown(Error("TypeError: Cannot convert undefined or null to object",
                       <<>>, <<>>),
                 <<[key |-> <<>>, text |-> <<>>, file |-> filename]>>)
     ELSE Returned(createReadOnlyObject(validated),
                   IF verbose THEN VerboseLog(filename, validated) ELSE <<>>)

loadEnvFile(d, filename, encryptKey, schema, verbose) ==
  IF d[filename] = Null
  THEN Thrown(Error("Configuration file not found: %s", <<filename>>, <<>>), <<>>)
  ELSE LET raw == ReadRaw(d, filename, encryptKey)
       IN IF ~raw.ok THEN raw
          ELSE Finish(filename, ParseEnv(raw.value.s), schema, verbose)

----------------------------------------------------------------------------
(* The cipher object in use: one TopSecret instance, the disk and          *)
(* process.env.  last is the call made last and its outcome.               *)

\* ""   "é"   one byte that is not UTF-8   "K=a=b\nX"
Plaintexts ==
  { <<>>, <<195, 169>>, <<255>>, <<75, 61, 97, 61, 98, 10, 88>> }

\* the documents handed to the JSON methods
JsonInputs == {JsonObjA}

\* no value; 63, 64 and 65 hex digits; 64 characters of which the last two,
\* or the first two, are not hex digits
KeyInputs ==
  { Null, Some(Rep(97, 63)), Some(Rep(97, 64)), Some(Rep(97, 65)),
    Some(Rep(97, 62) \o <<122, 122>>), Some(<<122, 122>> \o Rep(97, 62)) }

\* not a string; ""; "pw"
PasswordInputs == { Null, Some(<<>>), Some(<<112, 119>>) }

\* a buffer that is no envelope: 20 zero bytes
Junk == Rep(0, IvBytes + 4)

\* arg is the buffer handed to decryptBuffer, and empty for the other calls
Called(op, arg, out) == [op |-> op, arg |-> arg, out |-> out]

Held(op) == IF last.op = op /\ last.out.ok THEN {last.out.val} ELSE {}

OnDisk == IF disk["data"] = Null THEN {} ELSE {The(disk["data"])}

\* the source can be read only if it is there, and then it is a short file
Short(path) == disk[path] # Null => Len(The(disk[path])) <= MaxPlainLen

\* glob.sync gives the files in this order
EnvFiles == <<"a.env", "b.env", "c.env">>
LoaderPaths == {"a.env", "b.env", "c.env", "gone.env"}

NoLoad == [filename |-> "", called |-> FALSE, out |-> Returned(JsUndefined, <<>>)]

NoRun ==
  [pc |-> "idle", filemask |-> "", files |-> <<>>, next |-> 1, configs |-> <<>>,
   attempted |-> <<>>, error |-> NoError, logged |-> <<>>]

Options(k, sc, vb) == [encryptKey |-> k, schema |-> sc, verbose |-> vb]

IdleLoader ==
  /\ dir = [p \in LoaderPaths |-> Null]
  /\ opts = Options(Null, "none", FALSE)
  /\ load = NoLoad
  /\ snapshot = JsUndefined
  /\ run = NoRun

NoResolve == [called |-> FALSE, version |-> "", envBefore |-> Null, out |-> Ok(<<>>)]

IdleKey ==
  /\ isProduction = FALSE
  /\ resolved = NoResolve

IdleCipher ==
  /\ _key = Null
  /\ _password = Null
  /\ disk = [p \in Paths |-> Null]
  /\ env = [n \in {} |-> <<>>]
  /\ last = Called("constructor", <<>>, Ok(<<>>))
  /\ calls = 0

InitCipher ==
  /\ IdleLoader
  /\ IdleKey
  /\ _key = Null
  /\ _password = Null
  /\ disk \in {[p \in Paths |-> IF p = "data" THEN Some(b) ELSE Null] : b \in Plaintexts}
  /\ env = [n \in {} |-> <<>>]
  /\ last = Called("constructor", <<>>, Ok(<<>>))
  /\ calls = 0

\* one more call on the object
Tick ==
  calls < MaxCalls /\ calls' = calls + 1 /\ UNCHANGED loaderVars /\ UNCHANGED keyVars

GenerateKey ==
  /\ Tick
  /\ \E r \in RandomBytes(KeyBytes) :
    /\ _key' = Some(r)
    /\ last' = Called("generateKey", <<>>, Ok(HexEncode(r)))
    /\ UNCHANGED <<_password, disk, env>>

SetKey ==
  /\ Tick
  /\ \E value \in KeyInputs :
    LET out == setKey(value)
    IN /\ _key' = IF out.ok THEN Some(out.val) ELSE _key
       /\ last' = Called("set key", <<>>, out)
       /\ UNCHANGED <<_password, disk, env>>

\* a setter that would store the value before it checks it
SetPasswordAssignsFirst ==
  /\ Tick
  /\ \E value \in PasswordInputs :
    LET out == setPassword(value)
    IN /\ _password' = value
       /\ _key' = IF out.ok THEN Some(out.val) ELSE _key
       /\ last' = Called("set password", <<>>, out)
       /\ UNCHANGED <<disk, env>>

SetPassword ==
  /\ Tick
  /\ \E value \in PasswordInputs :
    LET out == setPassword(value)
    IN /\ _password' = IF out.ok THEN value ELSE _password
       /\ _key' = IF out.ok THEN Some(out.val) ELSE _key
       /\ last' = Called("set password", <<>>, out)
       /\ UNCHANGED <<disk, env>>

EncryptBuffer ==
  /\ Tick
  /\ \E b \in Plaintexts, iv \in RandomBytes(IvBytes) :
    /\ last' = Called("encryptBuffer", <<>>, encryptBuffer(_key, iv, b))
    /\ UNCHANGED <<_key, _password, disk, env>>

DecryptBuffer ==
  /\ Tick
  /\ \E b \in Held("encryptBuffer") \cup OnDisk \cup {Junk} :
    /\ last' = Called("decryptBuffer", b, decryptBuffer(_key, b))
    /\ UNCHANGED <<_key, _password, disk, env>>

EncryptJSON ==
  /\ Tick
  /\ \E v \in JsonInputs, iv \in RandomBytes(IvBytes) :
    /\ last' = Called("encryptJSON", <<>>, encryptJSON(_key, iv, v))
    /\ UNCHANGED <<_key, _password, disk, env>>

DecryptJSON ==
  /\ Tick
  /\ \E t \in Held("encryptJSON") \cup {Utf8Decode(b) : b \in OnDisk} :
    /\ last' = Called("decryptJSON", <<>>, decryptJSON(_key, t))
    /\ UNCHANGED <<_key, _password, disk, env>>

DecryptEnvFromFile ==
  /\ Tick
  /\ \E f \in Paths :
    LET r == decryptEnvFromFile(_key, disk, env, f)
    IN /\ env' = r.env
       /\ last' = Called("decryptEnvFromFile", <<>>, r.out)
       /\ UNCHANGED <<_key, _password, disk>>

EncryptFile ==
  /\ Tick
  /\ \E src \in Paths, dst \in Paths, iv \in RandomBytes(IvBytes) :
    /\ Short(src)
    /\ LET r == encryptFile(_key, iv, disk, src, dst)
       IN /\ disk' = r.disk
          /\ last' = Called("encryptFile", <<>>, r.out)
    /\ UNCHANGED <<_key, _password, env>>

DecryptFile ==
  /\ Tick
  /\ \E src \in Paths, dst \in Paths :
    LET r == decryptFile(_key, disk, src, dst)
    IN /\ disk' = r.disk
       /\ last' = Called("decryptFile", <<>>, r.out)
       /\ UNCHANGED <<_key, _password, env>>

EncryptJSONToFile ==
  /\ Tick
  /\ \E v \in JsonInputs, f \in Paths, iv \in RandomBytes(IvBytes) :
    LET r == encryptJSONToFile(_key, iv, disk, v, f)
    IN /\ disk' = r.disk
       /\ last' = Called("encryptJSONToFile", <<>>, r.out)
       /\ UNCHANGED <<_key, _password, env>>

DecryptBufferFromFile ==
  /\ Tick
  /\ \E f \in Paths :
    /\ last' = Called("decryptBufferFromFile", <<>>, decryptBufferFromFile(_key, disk, f))
    /\ UNCHANGED <<_key, _password, disk, env>>

DecryptJSONFromFile ==
  /\ Tick
  /\ \E f \in Paths :
    /\ last' = Called("decryptJSONFromFile", <<>>, decryptJSONFromFile(_key, disk, f))
    /\ UNCHANGED <<_key, _password, disk, env>>

LoadJSONFromFile ==
  /\ Tick
  /\ \E f \in Paths :
    /\ last' = Called("loadJSONFromFile", <<>>, loadJSONFromFile(_key, disk, f))
    /\ UNCHANGED <<_key, _password, disk, env>>

SaveBufferToFile ==
  /\ Tick
  /\ \E f \in Paths, b \in Plaintexts, iv \in RandomBytes(IvBytes) :
    LET r == saveBufferToFile(_key, iv, disk, f, b)
    IN /\ disk' = r.disk
       /\ last' = Called("saveBufferToFile", <<>>, r.out)
       /\ UNCHANGED <<_key, _password, env>>

SaveJSONToFile ==
  /\ Tick
  /\ \E f \in Paths, v \in JsonInputs, iv \in RandomBytes(IvBytes) :
    LET r == saveJSONToFile(_key, iv, disk, f, v)
    IN /\ disk' = r.disk
       /\ last' = Called("saveJSONToFile", <<>>, r.out)
       /\ UNCHANGED <<_key, _password, env>>

NextCipher ==
  \/ GenerateKey \/ SetKey \/ SetPassword
  \/ EncryptBuffer \/ DecryptBuffer \/ EncryptJSON \/ DecryptJSON
  \/ DecryptEnvFromFile \/ EncryptFile \/ DecryptFile
  \/ EncryptJSONToFile \/ DecryptBufferFromFile \/ DecryptJSONFromFile
  \/ LoadJSONFromFile \/ SaveBufferToFile \/ SaveJSONToFile

Spec == InitCipher /\ [][NextCipher]_vars

\* the key of the instance: set, replaced, and used to encrypt
NextSetters == GenerateKey \/ SetKey \/ SetPassword \/ EncryptBuffer

SpecSetters == InitCipher /\ [][NextSetters]_vars

----------------------------------------------------------------------------
(* The loaders in use: loadEnvFile and loadEnvFiles read the directory dir. *)

\* a=1 b=2 o={"a":1}, one per line
FullText ==
  <<97, 61, 49, 10, 98, 61, 50, 10, 111, 61, 123, 34, 97, 34, 58, 49, 125>>
\* l=[1]
ListText == <<108, 61, 91, 49, 93>>

\* the key the encrypted env files are written with: 64 times "a"
FileKeyHex == Rep(97, KeyHexChars)
Sealed(text) == encryptBuffer(Some(HexDecode(FileKeyHex)), Rep(1, IvBytes), text).val

FileKinds == {FullText, ListText, Sealed(FullText)}

\* null, the key of the files, and a key that is too short ("abc")
EncryptKeys == {Null, Some(FileKeyHex), Some(<<97, 98, 99>>)}

InitLoader ==
  /\ IdleCipher
  /\ IdleKey
  /\ dir \in {[p \in LoaderPaths |->
                 IF p = "a.env" THEN Some(a) ELSE IF p = "b.env" THEN Some(b)
                 ELSE IF p = "c.env" THEN Some(c) ELSE Null] :
              a \in FileKinds, b \in FileKinds, c \in FileKinds}
  /\ opts \in {Options(k, sc, vb) : k \in EncryptKeys, sc \in Schemas, vb \in BOOLEAN}
  /\ load = NoLoad
  /\ snapshot = JsUndefined
  /\ run = NoRun

\* loadEnvFile(filename, encryptKey, schema, {verbose}), called by the
\* application; no call is made while loadEnvFiles is running
Load ==
  \E f \in LoaderPaths :
    LET out == loadEnvFile(dir, f, opts.encryptKey, opts.schema, opts.verbose)
    IN /\ run.pc # "loop"
       /\ load' = [filename |-> f, called |-> TRUE, out |-> out]
       /\ snapshot' = out.value
       /\ run' = NoRun
       /\ UNCHANGED <<dir, opts>>
       /\ UNCHANGED cipherVars
       /\ UNCHANGED keyVars

\* glob.sync(filemask, {absolute: true})
Glob(filemask) == IF filemask = "*.env" THEN EnvFiles ELSE <<>>

\* loadEnvFiles, up to its loop: the glob, and the error for no match
LoadFilesStart ==
  \E m \in {"*.env", "*.cfg"} :
    /\ run.pc # "loop"
    /\ run' = [NoRun EXCEPT
                 !.pc = IF Len(Glob(m)) = 0 THEN "thrown" ELSE "loop",
                 !.filemask = m,
                 !.files = Glob(m),
                 !.error = IF Len(Glob(m)) = 0
                           THEN Error("No environment files matched pattern: %s",
                                      <<m>>, <<>>)
                           ELSE NoError]
    /\ load' = NoLoad
    /\ snapshot' = JsUndefined
    /\ UNCHANGED <<dir, opts>>
    /\ UNCHANGED cipherVars
    /\ UNCHANGED keyVars

\* one turn of  for (const file of files): the error is logged with the
\* file's name and thrown again as it was caught
LoadFilesStep ==
  /\ run.pc = "loop"
  /\ run.next <= Len(run.files)
  /\ LET file == run.files[run.next]
         out  == loadEnvFile(dir, file, opts.encryptKey, opts.schema, opts.verbose)
     IN run' = IF out.ok
               THEN [run EXCEPT !.next = @ + 1,
                                !.attempted = Append(@, file),
                                !.configs = Append(@, out.value)]
               ELSE [run EXCEPT !.pc = "thrown",
                                !.attempted = Append(@, file),
                                !.logged = Append(@, [file |-> file, error |-> out.error]),
                                !.error = out.error]
  /\ UNCHANGED <<dir, opts, load, snapshot>>
  /\ UNCHANGED cipherVars
  /\ UNCHANGED keyVars

\* return configs
LoadFilesReturn ==
  /\ run.pc = "loop"
  /\ run.next > Len(run.files)
  /\ run' = [run EXCEPT !.pc = "returned"]
  /\ UNCHANGED <<dir, opts, load, snapshot>>
  /\ UNCHANGED cipherVars
  /\ UNCHANGED keyVars

NextLoader == Load \/ LoadFilesStart \/ LoadFilesStep \/ LoadFilesReturn

SpecLoader == InitLoader /\ [][NextLoader]_vars

----------------------------------------------------------------------------
(* The snapshot in the caller's hands.  Object.defineProperty made every   *)
(* property of the copy non-writable and non-configurable; the copy itself *)
(* and its nested copies are ordinary objects and arrays.  The caller then *)
(* assigns, deletes and pushes as the language lets it.                    *)

MaxProps == 4

NameNew == <<110>>
IndexName(n) == <<48 + n>>

\* o[k] = v: an own property takes the value if it is writable; a new
\* property is added if the object is extensible
SetProperty(o, k, v) ==
  IF HasProp(o, k)
  THEN [o EXCEPT !.kids = [i \in 1..Len(o.kids) |->
                             IF o.kids[i].k = k /\ o.kids[i].w
                             THEN [o.kids[i] EXCEPT !.v = v] ELSE o.kids[i]]]
  ELSE IF o.ext THEN [o EXCEPT !.kids = Append(o.kids, Prop(k, v))]
  ELSE o

\* delete o[k]: an own property goes if it is configurable
DeleteProperty(o, k) ==
  [o EXCEPT !.kids = SelectSeq(o.kids, LAMBDA p : ~(p.k = k /\ p.c))]

\* a.push(v): a[a.length] = v
ArrayPush(a, v) == SetProperty(a, IndexName(Len(a.kids)), v)

\* the snapshot itself (the empty path) and the objects and arrays it holds
Targets(root) ==
  IF ~IsObject(root) THEN {}
  ELSE {<<>>} \cup {<<i>> : i \in {j \in 1..Len(root.kids) : IsObject(root.kids[j].v)}}

At(root, path) == IF path = <<>> THEN root ELSE root.kids[path[1]].v

\* the snapshot after the object at path has become changed
Put(root, path, changed) ==
  IF path = <<>> THEN changed ELSE [root EXCEPT !.kids[path[1]].v = changed]

InHand == load.called /\ load.out.ok

Kept ==
  /\ UNCHANGED <<dir, opts, load, run>>
  /\ UNCHANGED cipherVars
  /\ UNCHANGED keyVars

\* config.k = 2,  config.o.k = 2,  config.l[0] = 2
Overwrite ==
  /\ InHand
  /\ \E p \in Targets(snapshot) : \E i \in 1..Len(At(snapshot, p).kids) :
       snapshot' = Put(snapshot, p,
                       SetProperty(At(snapshot, p), At(snapshot, p).kids[i].k, Two))
  /\ Kept

\* delete config.k,  delete config.o.k
Delete ==
  /\ InHand
  /\ \E p \in Targets(snapshot) : \E i \in 1..Len(At(snapshot, p).kids) :
       /\ At(snapshot, p).t = "object"
       /\ snapshot' = Put(snapshot, p,
                          DeleteProperty(At(snapshot, p), At(snapshot, p).kids[i].k))
  /\ Kept

\* config.n = 1,  config.o.n = 1
AddField ==
  /\ InHand
  /\ \E p \in Targets(snapshot) :
       /\ At(snapshot, p).t = "object"
       /\ Len(At(snapshot, p).kids) < MaxProps
       /\ snapshot' = Put(snapshot, p, SetProperty(At(snapshot, p), NameNew, One))
  /\ Kept

\* config.l.push(1)
Push ==
  /\ InHand
  /\ \E p \in Targets(snapshot) :
       /\ At(snapshot, p).t = "array"
       /\ Len(At(snapshot, p).kids) < MaxProps
       /\ snapshot' = Put(snapshot, p, ArrayPush(At(snapshot, p), One))
  /\ Kept

\* plaintext files, loaded without a key, with no schema or with the schema
\* that adds a default
InitSnapshot ==
  /\ IdleCipher
  /\ IdleKey
  /\ dir \in {[p \in LoaderPaths |->
                 IF p = "a.env" THEN Some(a) ELSE IF p = "b.env" THEN Some(b)
                 ELSE IF p = "c.env" THEN Some(FullText) ELSE Null] :
              a \in {FullText, ListText}, b \in {FullText, ListText}}
  /\ opts \in {Options(Null, sc, FALSE) : sc \in {"none", "withDefault"}}
  /\ load = NoLoad
  /\ snapshot = JsUndefined
  /\ run = NoRun

NextSnapshot == Load \/ Overwrite \/ Delete \/ AddField \/ Push

SpecSnapshot == InitSnapshot /\ [][NextSnapshot]_vars

----------------------------------------------------------------------------
(* loadEncryptKey.js, in its two versions.  The key file is on the disk,   *)
(* ENCRYPT_KEY is in process.env, system.isProduction is the mode.         *)

\* "ENCRYPT_KEY"
EncryptKeyName == <<69, 78, 67, 82, 89, 80, 84, 95, 75, 69, 89>>
KeyFile == "_secret.key"

\* process.env.NAME: Null when it is not there
EnvGet(e, n) == IF n \in DOMAIN e THEN Some(e[n]) ELSE Null
\* process.env.NAME = value
EnvSet(e, n, value) == [m \in DOMAIN e \cup {n} |-> IF m = n THEN value ELSE e[m]]

\* fs.readFileSync(resolvedPath, "utf-8").trim()
ReadKeyFile(d, filename) == Trim(Utf8Decode(The(d[filename])))

\* const key = process.env.ENCRYPT_KEY; if (!key || key.length !== 64) throw
ValidateKey(e, message) ==
  LET key == EnvGet(e, EncryptKeyName)
  IN IF key = Null \/ The(key) = <<>> \/ Len(The(key)) # KeyHexChars
     THEN Throw(message, "arg")
     ELSE Ok(The(key))

\* lib/loadEncryptKey.js: the outcome and process.env after the call
loadEncryptKey(prod, e, d, filename) ==
  LET e1 == IF ~prod /\ d[filename] # Null
            THEN EnvSet(e, EncryptKeyName, ReadKeyFile(d, filename))
            ELSE e
  IN [out |-> ValidateKey(e1,
                "Encryption key used for configuration files is undefined or invalid"),
      env |-> e1]

\* the version that falls back to the file in production
loadEncryptKeyPreferEnv(prod, e, d, filename) ==
  LET set == EnvGet(e, EncryptKeyName) # Null /\ The(EnvGet(e, EncryptKeyName)) # <<>>
      e1 == IF ~prod
            THEN IF d[filename] # Null
                 THEN EnvSet(e, EncryptKeyName, ReadKeyFile(d, filename)) ELSE e
            ELSE IF set THEN e
            ELSE IF d[filename] # Null
                 THEN EnvSet(e, EncryptKeyName, ReadKeyFile(d, filename)) ELSE e
  IN [out |-> ValidateKey(e1,
                "Encryption key is undefined or invalid. Expected a 64-character string."),
      env |-> e1]

Resolved(version, before, out) ==
  [called |-> TRUE, version |-> version, envBefore |-> before, out |-> out]

KeptByResolve ==
  /\ UNCHANGED <<_key, _password, disk, last, calls, isProduction>>
  /\ UNCHANGED loaderVars

LoadEncryptKey ==
  LET r == loadEncryptKey(isProduction, env, disk, KeyFile)
  IN /\ resolved' = Resolved("lib", EnvGet(env, EncryptKeyName), r.out)
     /\ env' = r.env
     /\ KeptByResolve

LoadEncryptKeyPreferEnv ==
  LET r == loadEncryptKeyPreferEnv(isProduction, env, disk, KeyFile)
  IN /\ resolved' = Resolved("fallback", EnvGet(env, EncryptKeyName), r.out)
     /\ env' = r.env
     /\ KeptByResolve

\* ENCRYPT_KEY as the process starts: "", "abc", 64 times "a", 64 times "b"
EnvKeys == {<<>>, <<97, 98, 99>>, Rep(97, KeyHexChars), Rep(98, KeyHexChars)}

\* the key file: 64 times "c" and a newline, "abc\n", nothing, 65 times "c"
KeyFiles ==
  {Rep(99, KeyHexChars) \o <<10>>, <<97, 98, 99, 10>>, <<>>, Rep(99, KeyHexChars + 1)}

InitKey ==
  /\ IdleLoader
  /\ _key = Null
  /\ _password = Null
  /\ last = Called("constructor", <<>>, Ok(<<>>))
  /\ calls = 0
  /\ disk \in {[p \in {KeyFile} |-> c] : c \in {Null} \cup {Some(f) : f \in KeyFiles}}
  /\ env \in {[n \in {} |-> <<>>]} \cup {[n \in {EncryptKeyName} |-> v] : v \in EnvKeys}
  /\ isProduction \in BOOLEAN
  /\ resolved = NoResolve

NextKey == LoadEncryptKey \/ LoadEncryptKeyPreferEnv

SpecKey == InitKey /\ [][NextKey]_vars

----------------------------------------------------------------------------
(* The line parser on its own: one plaintext file a.env of up to two lines, *)
(* loaded without key and without schema.                                  *)

\* ""   "#c"   "=x"   "a=1"   " a = h=w #c"   "b"   "__proto__=1"
\* "o={"a":1} #c"   "a=[x]"
ParserLines ==
  { <<>>,
    <<35, 99>>,
    <<61, 120>>,
    <<97, 61, 49>>,
    <<32, 97, 32, 61, 32, 104, 61, 119, 32, 35, 99>>,
    <<98>>,
    ProtoName \o <<61, 49>>,
    <<111, 61, 123, 34, 97, 34, 58, 49, 125, 32, 35, 99>>,
    <<97, 61, 91, 120, 93>> }

\* the line ends: "\n" and "\r\n"
LineEnds == { <<10>>, <<13, 10>> }

ParserTexts ==
  ParserLines
    \cup {x \o e \o y : x \in ParserLines, y \in ParserLines, e \in LineEnds}

InitParser ==
  /\ IdleCipher
  /\ IdleKey
  /\ dir \in {[p \in LoaderPaths |-> IF p = "a.env" THEN Some(Utf8Encode(t)) ELSE Null] :
              t \in ParserTexts}
  /\ opts = Options(Null, "none", FALSE)
  /\ load = NoLoad
  /\ snapshot = JsUndefined
  /\ run = NoRun

NextParser == Load

SpecParser == InitParser /\ [][NextParser]_vars

----------------------------------------------------------------------------
(* Claims about the cipher object *)

\* every operation of the cipher that the specification lists
CipherOps ==
  { "encryptBuffer", "decryptBuffer", "encryptJSON", "decryptJSON",
    "encryptFile", "decryptFile", "encryptJSONToFile", "decryptBufferFromFile",
    "decryptJSONFromFile", "loadJSONFromFile", "saveBufferToFile",
    "saveJSONToFile", "decryptEnvFromFile" }

FileOps ==
  { "encryptFile", "decryptFile", "encryptJSONToFile", "decryptBufferFromFile",
    "decryptJSONFromFile", "loadJSONFromFile", "saveBufferToFile",
    "saveJSONToFile" }

\* C1: on an instance without key material every cipher operation fails
\* with "Key is not set." and with no other error.
C1_NoKeyFailsKeyNotSet ==
  (last.op \in CipherOps /\ _key = Null)
    => (~last.out.ok /\ last.out.err = "Key is not set.")

\* C2: a retained password means the key is the one derived from it: once
\* generate or set_key_hex has replaced the key, no password is retained.
C2_OneProvenance ==
  _password # Null => _key = Some(Sha256(The(_password)))

\* C3: the key material is absent or exactly 32 bytes, set_key_hex having
\* rejected every text that does not decode to 32 bytes.
C3_KeyIs32Bytes ==
  /\ _key # Null => Len(The(_key)) = KeyBytes
  /\ (last.op = "set key" /\ last.out.ok) => Len(last.out.val) = KeyBytes

\* C4: decrypt_bytes of the envelope encrypt_bytes made of b under the same
\* key returns exactly the bytes of b.
C4_RoundTrip ==
  \A b \in Plaintexts, iv \in RandomBytes(IvBytes) :
    (/\ last.op = "decryptBuffer"
     /\ _key # Null
     /\ encryptBuffer(_key, iv, b).ok
     /\ last.arg = encryptBuffer(_key, iv, b).val)
      => (last.out.ok /\ Utf8Encode(last.out.val) = b)

\* The error each file variant raises when the file system fails under a
\* usable key: the call is made on the path that cannot be read or written.
UsableKey == Some(Rep(0, KeyBytes))
SomeIv == Rep(0, IvBytes)
IoError(op) ==
  CASE op = "encryptFile" -> encryptFile(UsableKey, SomeIv, disk, "nodir/x", "data").out.err
    [] op = "decryptFile" -> decryptFile(UsableKey, disk, "nodir/x", "data").out.err
    [] op = "encryptJSONToFile" ->
         encryptJSONToFile(UsableKey, SomeIv, disk, JsonObjA, "nodir/x").out.err
    [] op = "decryptBufferFromFile" -> decryptBufferFromFile(UsableKey, disk, "nodir/x").err
    [] op = "decryptJSONFromFile" -> decryptJSONFromFile(UsableKey, disk, "nodir/x").err
    [] op = "loadJSONFromFile" -> loadJSONFromFile(UsableKey, disk, "nodir/x").err
    [] op = "saveBufferToFile" ->
         saveBufferToFile(UsableKey, SomeIv, disk, "nodir/x", <<>>).out.err
    [] op = "saveJSONToFile" ->
         saveJSONToFile(UsableKey, SomeIv, disk, "nodir/x", JsonObjA).out.err

\* C5: a file variant that fails for a cipher reason (no key, bad key, bad
\* data) raises an error other than the one it raises for a failed read or
\* write, and a failed read or write never surfaces as the raw platform error.
C5_IoDistinctFromCipher ==
  /\ (last.op \in FileOps /\ ~last.out.ok /\ last.out.cause = "cipher")
       => last.out.err # IoError(last.op)
  /\ (last.op \in FileOps /\ ~last.out.ok /\ last.out.cause = "io")
       => last.out.err # Enoent.err

----------------------------------------------------------------------------
(* Claims about the loaders *)

\* what a value holds, whatever its properties' attributes are
RECURSIVE Contents(_)
Contents(value) ==
  [t |-> value.t, s |-> value.s,
   kids |-> [i \in 1..Len(value.kids) |->
               [k |-> value.kids[i].k, v |-> Contents(value.kids[i].v)]]]

\* the text loadEnvFile read for the call made last, and what the schema's
\* validator answers for the map parsed from it
TextRead == ReadRaw(dir, load.filename, opts.encryptKey)
Answer == Validate(opts.schema, ParseEnv(TextRead.value.s))

Validating ==
  /\ load.called
  /\ dir[load.filename] # Null
  /\ HasValidate(opts.schema)
  /\ TextRead.ok

\* C6: when the validator answers with field errors, load fails with the
\* file's name and every (field, message) pair of the answer, in the
\* answer's order, and hands no map or snapshot to the caller; when the
\* validator answers with no error and a transformed map, load succeeds
\* and the snapshot holds that map.
C6_ValidationFailedCarriesAll ==
  Validating =>
    /\ Len(Answer.errors) > 0 =>
         /\ ~load.out.ok
         /\ load.out.error.template = "Fatal configuration error(s) detected in \"%s\":"
         /\ load.out.error.args = <<load.filename>>
         /\ Len(load.out.error.lines) = Len(Answer.errors)
         /\ \A i \in 1..Len(Answer.errors) :
              load.out.error.lines[i] = <<Answer.errors[i].field, Answer.errors[i].message>>
         /\ load.out.value = JsUndefined
         /\ snapshot = JsUndefined
    /\ (Len(Answer.errors) = 0 /\ Answer.validated # Null) =>
         /\ load.out.ok
         /\ Contents(snapshot) = Contents(The(Answer.validated))

\* a load whose validator answered with two field errors
C6_TwoErrorsReported ==
  /\ Validating
  /\ Len(Answer.errors) = 2
  /\ ~load.out.ok

\* the failing file of a loadEnvFiles call that threw inside its loop
Offending == run.files[run.next]

InText(file, error) == \E i \in 1..Len(error.args) : error.args[i] = file

\* C8: loadEnvFiles calls loadEnvFile once per matched file in the order of
\* the expansion; at the first failure it stops, the error it throws names
\* the offending file, no later file is attempted and no snapshots are
\* returned; without a failure every file is loaded and returned.
C8_FirstFailureAborts ==
  /\ (run.pc = "thrown" /\ run.files # <<>>) =>
       /\ run.attempted = Take(run.files, run.next)
       /\ Len(run.configs) = run.next - 1
       /\ InText(Offending, run.error)
  /\ run.pc = "returned" =>
       /\ run.attempted = run.files
       /\ Len(run.configs) = Len(run.files)

\* what the caller of loadEnvFile gets: the value, or the error
Outcome(out) == [ok |-> out.ok, error |-> out.error, value |-> out.value]

\* C10: the call made last has the outcome the same call has with the
\* verbose option the other way round.
C10_VerboseObservational ==
  load.called =>
    Outcome(load.out) =
      Outcome(loadEnvFile(dir, load.filename, opts.encryptKey, opts.schema, ~opts.verbose))

\* C7: the snapshot of a successful load is never changed afterwards:
\* whatever the caller tries on it or on an object or array inside it, it
\* holds what load returned.
C7_SnapshotNeverChanges ==
  InHand => Contents(snapshot) = Contents(load.out.value)

\* a source yields a key when it is there and is 64 characters long
Yields(source) == source # Null /\ Len(The(source)) = KeyHexChars

\* the key file, read and trimmed; Null when there is no file
FileKey == IF disk[KeyFile] = Null THEN Null ELSE Some(ReadKeyFile(disk, KeyFile))

\* C9: the key returned has 64 characters; in production it is ENCRYPT_KEY
\* when that was set to a key, and the trimmed file when ENCRYPT_KEY was not
\* set; the call fails exactly when neither ENCRYPT_KEY nor the file yields
\* 64 characters.
C9_ResolveExternal ==
  resolved.called =>
    /\ resolved.out.ok => Len(resolved.out.val) = KeyHexChars
    /\ (isProduction /\ Yields(resolved.envBefore))
         => (resolved.out.ok /\ resolved.out.val = The(resolved.envBefore))
    /\ (isProduction /\ resolved.envBefore = Null /\ Yields(FileKey))
         => (resolved.out.ok /\ resolved.out.val = The(FileKey))
    /\ ~resolved.out.ok <=> (~Yields(resolved.envBefore) /\ ~Yields(FileKey))

----------------------------------------------------------------------------
(* Claims about the line parser *)

\* the place of the first "=" in a line, 0 when there is none
FirstEq(line) ==
  IF \A i \in 1..Len(line) : line[i] # 61 THEN 0
  ELSE CHOOSE i \in 1..Len(line) : line[i] = 61 /\ \A m \in 1..(i - 1) : line[m] # 61

\* a value, classified: JSON when it looks like JSON and parses, the
\* literal text when it does not parse, a primitive otherwise
Classified(value) ==
  IF isJsonLike(value)
  THEN IF JsonParse(value).ok THEN The(JsonParse(value).obj) ELSE JsString(value)
  ELSE coercePrimitive(value)

\* map[name] = value, the last value of a name replacing the earlier one
Stored(map, name, value) ==
  IF HasProp(map, name)
  THEN [map EXCEPT !.kids = [i \in 1..Len(map.kids) |->
                               IF map.kids[i].k = name
                               THEN [map.kids[i] EXCEPT !.v = value]
                               ELSE map.kids[i]]]
  ELSE [map EXCEPT !.kids = Append(map.kids, Prop(name, value))]

\* what one line contributes to the map
Contribution(map, line) ==
  LET t  == Trim(line)
      eq == FirstEq(t)
      name == IF eq = 0 THEN t ELSE Take(t, eq - 1)
      rest == IF eq = 0 THEN <<>> ELSE Drop(t, eq)
  IN IF t = <<>> \/ t[1] = 35 \/ name = <<>> THEN map
     ELSE Stored(map, Trim(name), Classified(Trim(StripInlineComment(rest))))

RECURSIVE Contributions(_, _)
Contributions(map, lines) ==
  IF lines = <<>> THEN map
  ELSE Contributions(Contribution(map, Head(lines)), Tail(lines))

\* the text of a.env
TextOfFile == Utf8Decode(The(dir["a.env"]))

Parsed == load.called /\ load.filename = "a.env" /\ load.out.ok

\* C11: the map parsed from a text is the map built line by line, where a
\* blank line, a comment line and a line without a name contribute nothing,
\* and every other line stores the classified value after its first "="
\* under its trimmed name, the last line of a name winning; no name is "".
C11_ParserMatchesLineByLine ==
  Parsed =>
    /\ Contents(snapshot) = Contents(Contributions(JsObject(<<>>), SplitLines(TextOfFile)))
    /\ \A i \in 1..Len(snapshot.kids) : snapshot.kids[i].k # <<>>

----------------------------------------------------------------------------
(* Claims about decryptEnvFromFile and the setters *)

\* the environment after a line split at its first "=" only: the trimmed
\* name gets the whole trimmed remainder when both are there
SplitAtFirst(e, line) ==
  LET eq == FirstEq(line)
      name == IF eq = 0 THEN line ELSE Take(line, eq - 1)
      rest == IF eq = 0 THEN <<>> ELSE Drop(line, eq)
  IN IF Trim(line) = <<>> \/ name = <<>> \/ rest = <<>> THEN e
     ELSE EnvSet(e, Trim(name), Trim(rest))

RECURSIVE SplitAllAtFirst(_, _)
SplitAllAtFirst(e, lines) ==
  IF lines = <<>> THEN e ELSE SplitAllAtFirst(SplitAtFirst(e, Head(lines)), Tail(lines))

\* the lines of the file decryptEnvFromFile has just decrypted
DecryptedLines == Split(decryptBuffer(_key, The(disk["data"])).val, 10)

\* C12: after decryptEnvFromFile the environment holds, for every line
\* name=value of the decrypted text, the whole trimmed remainder after the
\* first "=" under the trimmed name, and nothing from the other lines.
C12_SplitsAtFirstEqualsOnly ==
  (last.op = "decryptEnvFromFile" /\ last.out.ok)
    => env = SplitAllAtFirst([n \in {} |-> <<>>], DecryptedLines)

Rejected(call) == call.op \in {"set key", "set password"} /\ ~call.out.ok

\* C13: a call of a setter that throws leaves the key and the retained
\* password as they were, so the instance encrypts as it did before.
C13_RejectedSetterKeepsState ==
  [][(calls' # calls /\ Rejected(last'))
       => /\ _key' = _key
          /\ _password' = _password
          /\ \A b \in Plaintexts :
               encryptBuffer(_key', SomeIv, b) = encryptBuffer(_key, SomeIv, b)]_vars

\* a setter has just been rejected on an instance that holds a password
\* and the key derived from it
C13_RejectedOnUsable ==
  /\ Rejected(last)
  /\ _password # Null
  /\ _key = Some(Sha256(The(_password)))

====
